---- MODULE Spec2Model ----
(***************************************************************************)
(* A model of the persona registry's transactional core:                   *)
(*   - BaseFileStore          (src/src/persona/storage/filestore.py)       *)
(*   - Transaction            (src/src/persona/storage/transaction.py)     *)
(*   - DuckDBMetaStoreEngine  (src/src/persona/storage/metastore/engine.py)*)
(*   - CursorLikeMetaStoreSession (.../metastore/session.py)               *)
(*   - Template.process_template  (src/src/persona/templates.py)           *)
(*   - PersonaAPI             (src/src/persona/api.py)                     *)
(*                                                                         *)
(* Bytes, hashes and entries are tagged tuples: the first component is a   *)
(* tag, so that two values of different shape are never compared beyond    *)
(* their tags.  md5 is modelled as a collision-free wrapper.               *)
(* A kind is the name of a metadata table and of a storage directory.      *)
(***************************************************************************)
EXTENDS Integers, Sequences, FiniteSets, TLC

VARIABLES
    fs,         \* the FileStore's files: storage path -> bytes or Absent
    dirs,       \* the directories that exist on the FileStore
    fsTxn,      \* BaseFileStore._transaction is set
    engTxn,     \* CursorLikeMetaStoreEngine._transaction is set
    log,        \* Transaction._log: <<action, key, data>> in apply order
    hashes,     \* Transaction._hashes: <<key, md5>> in dict insertion order
    metadata,   \* CursorLikeMetaStoreEngine._metadata: <<action, entry>>
    conn,       \* DuckDBMetaStoreEngine._conn is not None
    hasTables,  \* the in-memory database holds the roles and skills tables
    tables,     \* the in-memory tables: kind -> set of rows
    parquet,    \* the persisted columnar files: kind -> set of rows
    readOnly,   \* DuckDBMetaStoreEngine._read_only
    last,       \* the last operation of the caller and how it ended
    fs0,        \* the files as they were when the current scope was entered
    ops,        \* the number of calls made so far that count against a bound
    cur,        \* the cursor of the engine's write session and its calls
    pipe,       \* the reindex run: its tasks, their queue and what they built
    mtime,      \* the modification times the reindex producer reads
    staged0     \* the length of the staging list when the scope was entered

vars == <<fs, dirs, fsTxn, engTxn, log, hashes, metadata, conn, hasTables,
          tables, parquet, readOnly, last, fs0, ops, cur, pipe, mtime,
          staged0>>

\* the variables of the write session and of the reindex run, and the
\* mark a scope sets on entry
auxVars == <<cur, pipe, mtime, staged0>>

---------------------------------------------------------------------------
(* Bounds of the model.                                                    *)

\* the number of FileStore and engine calls the callers make in the bodies
\* of their scopes, over a whole run
MaxOps == 3

---------------------------------------------------------------------------
(* The universe: kinds, names, storage paths, bytes.                       *)

Kinds == {"roles", "skills"}
Names == {"a", "b"}
Descs == {"d1", "d2"}
Times == {0, 1}

RootName(kind) == IF kind = "roles" THEN "ROLE.md" ELSE "SKILL.md"

TemplateDir(kind, name) == <<kind, name>>
RootPath(kind, name) == <<kind, name, RootName(kind)>>
AncPath(kind, name) == <<kind, name, "scripts", "run.py">>

\* every storage path of the model, in the order of their POSIX strings
\* ('.' < 'R' < 'S' < 's' in ASCII)
PathOrder ==
    << <<"roles", "a", ".manifest.json">>,
       <<"roles", "a", "ROLE.md">>,
       <<"roles", "b", ".manifest.json">>,
       <<"roles", "b", "ROLE.md">>,
       <<"skills", "a", ".manifest.json">>,
       <<"skills", "a", "SKILL.md">>,
       <<"skills", "a", "scripts", ".manifest.json">>,
       <<"skills", "a", "scripts", "run.py">>,
       <<"skills", "b", ".manifest.json">>,
       <<"skills", "b", "SKILL.md">>,
       <<"skills", "b", "scripts", ".manifest.json">>,
       <<"skills", "b", "scripts", "run.py">> >>

FileKeys == {PathOrder[i] : i \in 1..Len(PathOrder)}
DirKeys == {<<k, n>> : k \in Kinds, n \in Names}
              \cup {<<"skills", n, "scripts">> : n \in Names}

Rank(key) == CHOOSE i \in 1..Len(PathOrder) : PathOrder[i] = key

Parent(path) == SubSeq(path, 1, Len(path) - 1)
IsUnder(path, dir) == Len(path) > Len(dir) /\ SubSeq(path, 1, Len(dir)) = dir
\* the directories makedirs(parent, exist_ok=True) brings into existence
Ancestors(path) == {d \in DirKeys : IsUnder(path, d)}

Absent == <<"absent">>
None == <<"none">>
Raw(s) == <<"raw", s>>

Md5(bytes) == <<"md5", bytes>>

---------------------------------------------------------------------------
(* TemplateHashValues: a dict in insertion order, hashed with sorted keys. *)

\* dict[file] = md5(content): an existing key keeps its position
HashAdd(h, file, content) ==
    IF \E i \in 1..Len(h) : h[i][1] = file
    THEN [i \in 1..Len(h) |-> IF h[i][1] = file THEN <<file, Md5(content)>> ELSE h[i]]
    ELSE Append(h, <<file, Md5(content)>>)

\* one pair put at its place in a sequence already sorted by key
InsertPair(p, s) ==
    LET n == Cardinality({i \in 1..Len(s) : Rank(s[i][1]) < Rank(p[1])})
    IN  SubSeq(s, 1, n) \o <<p>> \o SubSeq(s, n + 1, Len(s))

RECURSIVE SortPairs(_)
\* orjson.dumps(..., option=OPT_SORT_KEYS): the pairs in key order
SortPairs(h) == IF h = <<>> THEN <<>> ELSE InsertPair(Head(h), SortPairs(Tail(h)))

\* a digest of the map in insertion order, its keys left unsorted
HashUnsorted(h) == <<"md5json", h>>

\* TemplateHashValues.hash: md5 of the sorted-key JSON of the dict
HashOf(h) == <<"md5json", SortPairs(h)>>

\* Transaction.transaction_id
TransactionId(h) == HashOf(h)

---------------------------------------------------------------------------
(* BaseFileStore.  A store state is [fs, dirs, log, hashes]: the files and *)
(* directories, and the attached Transaction's log and hash map.           *)

Exists(st, key) == IF key \in DirKeys THEN key \in st.dirs ELSE st.fs[key] # Absent
IsDir(st, key) == key \in st.dirs

\* BaseFileStore._save: makedirs(parent, exist_ok=True), then write
RawSave(st, key, data) ==
    [st EXCEPT !.fs = [@ EXCEPT ![key] = data],
               !.dirs = @ \cup Ancestors(key)]

\* BaseFileStore._delete on a file or, recursively, on a directory:
\* fs.rm only if the key exists
RawDelete(st, key, recursive) ==
    IF ~Exists(st, key) THEN st
    ELSE IF key \in DirKeys
         THEN IF recursive
              THEN [st EXCEPT
                      !.fs = [k \in FileKeys |-> IF IsUnder(k, key) THEN Absent ELSE @[k]],
                      !.dirs = {d \in @ : d # key /\ ~IsUnder(d, key)}]
              ELSE st
         ELSE [st EXCEPT !.fs = [@ EXCEPT ![key] = Absent]]

\* fs.rm(path, recursive=False) of a directory raises
DeleteRaises(st, key, recursive) == Exists(st, key) /\ key \in DirKeys /\ ~recursive

\* a save that logs delete(key) whether or not the key exists
SaveForgetsPrior(st, key, data, attached) ==
    LET logged == IF ~attached THEN st
                  ELSE [st EXCEPT !.log = Append(@, <<"delete", key, Absent>>),
                                  !.hashes = HashAdd(@, key, data)]
    IN  RawSave(logged, key, data)

\* BaseFileStore.save
Save(st, key, data, attached) ==
    LET logged == IF ~attached THEN st
                  ELSE [st EXCEPT
                          !.log = Append(@, IF Exists(st, key)
                                            THEN <<"restore", key, st.fs[key]>>
                                            ELSE <<"delete", key, Absent>>),
                          !.hashes = HashAdd(@, key, data)]
    IN  RawSave(logged, key, data)

\* BaseFileStore.delete
Delete(st, key, recursive, attached) ==
    LET logged == IF attached /\ Exists(st, key) /\ ~IsDir(st, key)
                  THEN [st EXCEPT !.log = Append(@, <<"restore", key, st.fs[key]>>),
                                  !.hashes = HashAdd(@, key, st.fs[key])]
                  ELSE st
    IN  RawDelete(logged, key, recursive)

RECURSIVE Undo(_, _)
\* Transaction.rollback: the log's inverse operations, last first
Undo(st, lg) ==
    IF lg = <<>> THEN st
    ELSE LET e == lg[Len(lg)]
             st1 == IF e[1] = "restore" THEN RawSave(st, e[2], e[3])
                    ELSE RawDelete(st, e[2], FALSE)
         IN  Undo(st1, SubSeq(lg, 1, Len(lg) - 1))

\* a rollback that undoes nothing
NoRollback(st) == st

Rollback(st) == Undo(st, st.log)

---------------------------------------------------------------------------
(* IndexEntry, rows and manifests.                                         *)

NoType == "none"
NoText == ""

\* FastEmbedder.encode: a function of the text alone
Encode(text) == <<"vec", text>>

\* IndexEntry(...): the fields not given default to None
IndexEntry(name, description, type, uuid, files, date) ==
    [name |-> name, description |-> description, uuid |-> uuid, etag |-> None,
     files |-> files, embedding |-> None, tags |-> <<>>, type |-> type,
     date_created |-> date]

\* entry.model_dump(exclude={'type'}): the row that is upserted
RowOf(e) ==
    [name |-> e.name, description |-> e.description, uuid |-> e.uuid,
     etag |-> e.etag, files |-> e.files, embedding |-> e.embedding,
     tags |-> e.tags, date_created |-> e.date_created]

\* orjson.dumps({k: v for k, v in entry.items() if k != 'embedding'})
ManifestBytes(row) ==
    <<"manifest",
      [name |-> row.name, description |-> row.description, uuid |-> row.uuid,
       etag |-> row.etag, files |-> row.files, tags |-> row.tags,
       date_created |-> row.date_created]>>

\* entry['files'][0].rsplit('/', 1)[0] + '/.manifest.json'
ManifestPath(row) == Parent(row.files[1]) \o <<".manifest.json">>

---------------------------------------------------------------------------
(* CursorLikeMetaStoreSession: a table is a set of rows.                   *)

\* a plain INSERT, which keeps the row that is there
UpsertAppend(table, rows) == table \cup {rows[i] : i \in 1..Len(rows)}

RECURSIVE Upsert(_, _)
\* INSERT OR REPLACE INTO table ... executemany(rows)
Upsert(table, rows) ==
    IF rows = <<>> THEN table
    ELSE Upsert({r \in table : r.name # Head(rows).name} \cup {Head(rows)}, Tail(rows))

\* DELETE FROM table WHERE name = ANY(keys)
Remove(table, keys) == {r \in table : \A i \in 1..Len(keys) : keys[i] # r.name}

\* SELECT 1 FROM table WHERE name = ?
RowExists(table, name) == \E r \in table : r.name = name

---------------------------------------------------------------------------
(* DuckDBMetaStoreEngine.  An engine state is [conn, hasTables, tables,    *)
(* parquet].  The database is in memory: it is gone when the connection    *)
(* is closed, and a new connection starts without tables.                  *)

EmptyTables == [k \in Kinds |-> {}]

Disconnected(eng) ==
    [eng EXCEPT !.conn = FALSE, !.hasTables = FALSE, !.tables = EmptyTables]

\* DuckDBMetaStoreEngine.connect: nothing if already connected
Connect(eng) ==
    IF eng.conn THEN eng
    ELSE [eng EXCEPT !.conn = TRUE, !.hasTables = FALSE, !.tables = EmptyTables]

\* DuckDBMetaStoreEngine.bootstrap raises without a connection, and its
\* CREATE TABLE raises when the table is already there
BootstrapRaises(eng) == ~eng.conn \/ eng.hasTables

\* DuckDBMetaStoreEngine.bootstrap: CREATE TABLE, then load the persisted
\* file of each kind (no file: the table stays empty)
Bootstrap(eng) == [eng EXCEPT !.hasTables = TRUE, !.tables = eng.parquet]

\* DuckDBMetaStoreEngine._export_tables raises: COPY of a table that does
\* not exist, or the injected I/O failure of one COPY
ExportRaises(eng, fault) ==
    ~eng.hasTables \/ fault \in {"export_roles", "export_skills"}

\* DuckDBMetaStoreEngine._export_tables: COPY roles, then COPY skills
ExportTables(eng, fault) ==
    IF ~eng.hasTables \/ fault = "export_roles" THEN eng
    ELSE IF fault = "export_skills"
         THEN [eng EXCEPT !.parquet = [@ EXCEPT !["roles"] = eng.tables["roles"]]]
         ELSE [eng EXCEPT !.parquet = eng.tables]

\* a close that drops the connection and never exports
CloseWithoutExport(eng, ro, fault) == IF ~eng.conn THEN eng ELSE Disconnected(eng)

\* DuckDBMetaStoreEngine.close raises when the export raises
CloseRaises(eng, ro, fault) == eng.conn /\ ~ro /\ ExportRaises(eng, fault)

\* DuckDBMetaStoreEngine.close: export when writable, then drop the
\* connection; a failed export leaves the connection open
Close(eng, ro, fault) ==
    IF ~eng.conn THEN eng
    ELSE IF ro THEN Disconnected(eng)
         ELSE IF ExportRaises(eng, fault) THEN ExportTables(eng, fault)
              ELSE Disconnected(ExportTables(eng, fault))

---------------------------------------------------------------------------
(* Transaction: the commit of a scope.                                     *)

\* the steps of a commit at which a failure can be injected
Faults == {"none", "manifest", "upsert", "remove", "commit",
           "export_roles", "export_skills"}

\* a loop that gives every entry the transaction id, set uuid or not
AssignUuidsAlways(md, txid) ==
    [i \in 1..Len(md) |-> <<md[i][1], [md[i][2] EXCEPT !.uuid = txid]>>]

\* Transaction._process_metadata, the loop: an entry without uuid gets the
\* transaction id (the entry object is updated in place)
AssignUuids(md, txid) ==
    [i \in 1..Len(md) |->
        <<md[i][1], IF md[i][2].uuid = None THEN [md[i][2] EXCEPT !.uuid = txid]
                    ELSE md[i][2]>>]

IsUpsert(item) == item[1] = "upsert"
IsDelete(item) == item[1] = "delete"

\* Transaction._process_metadata: [md, types, upserts, deletes]
ProcessMetadata(md, txid) ==
    LET md1 == AssignUuids(md, txid)
        ups == SelectSeq(md1, IsUpsert)
        dels == SelectSeq(md1, IsDelete)
    IN  [md |-> md1,
         types |-> {md1[i][2].type : i \in 1..Len(md1)} \ {NoType},
         upserts |-> [i \in 1..Len(ups) |-> RowOf(ups[i][2])],
         deletes |-> [i \in 1..Len(dels) |-> dels[i][2].name]]

\* the manifest of an upsert cannot be written: the entry has no files, or
\* the injected I/O failure
ManifestRaises(rows, fault) ==
    rows # <<>> /\ (fault = "manifest" \/ \E i \in 1..Len(rows) : rows[i].files = <<>>)

RECURSIVE SaveManifests(_, _)
\* Transaction.__exit__, the loop over the upserts: each manifest is saved
\* through FileStore.save, with the transaction still attached
SaveManifests(st, rows) ==
    IF rows = <<>> THEN st
    ELSE SaveManifests(Save(st, ManifestPath(Head(rows)), ManifestBytes(Head(rows)), TRUE),
                       Tail(rows))

\* Transaction._update_index inside engine.session(): upsert, then remove;
\* the session commits only if nothing raised, else it rolls back
UpdateIndex(eng, type, upserts, deletes) ==
    [eng EXCEPT !.tables = [@ EXCEPT ![type] = Remove(Upsert(@, upserts), deletes)]]

\* the step of the write session that raises, "none" if none does
SessionRaisesAt(upserts, deletes, fault) ==
    IF fault = "upsert" /\ upserts # <<>> THEN "upsert"
    ELSE IF fault = "remove" /\ deletes # <<>> THEN "remove"
    ELSE IF fault = "commit" THEN "commit"
    ELSE "none"

\* with engine.open(bootstrap=True): session: _update_index; close in the
\* finally of open.  [at, eng]: at is the step that raised, "none" if none
OpenAndUpdate(eng, ro, type, upserts, deletes, fault) ==
    LET e1 == Connect(eng)
    IN  IF BootstrapRaises(e1)
        THEN [at |-> "bootstrap", eng |-> Close(e1, ro, fault)]
        ELSE LET e2 == Bootstrap(e1)
                 at == SessionRaisesAt(upserts, deletes, fault)
                 e3 == IF at = "none" THEN UpdateIndex(e2, type, upserts, deletes) ELSE e2
             IN  [at |-> IF at # "none" THEN at
                         ELSE IF CloseRaises(e3, ro, fault) THEN "export" ELSE "none",
                  eng |-> Close(e3, ro, fault)]

\* Transaction.__exit__ with no exception in flight, up to the finally.
\* [at, st, eng, md]: at is the step that raised, "none" on success
Commit(st, eng, md, ro, fault) ==
    LET pm == ProcessMetadata(md, TransactionId(st.hashes))
    IN  IF Cardinality(pm.types) > 1
        THEN [at |-> "process_metadata", st |-> Rollback(st), eng |-> eng, md |-> pm.md]
        ELSE IF pm.types = {}
        THEN [at |-> "none", st |-> st, eng |-> eng, md |-> pm.md]
        ELSE IF ManifestRaises(pm.upserts, fault)
        THEN [at |-> "manifest", st |-> Rollback(st), eng |-> eng, md |-> pm.md]
        ELSE LET st1 == SaveManifests(st, pm.upserts)
                 type == CHOOSE t \in pm.types : TRUE
                 o == OpenAndUpdate(eng, ro, type, pm.upserts, pm.deletes, fault)
             IN  [at |-> o.at,
                  st |-> IF o.at = "none" THEN st1 ELSE Rollback(st1),
                  eng |-> o.eng, md |-> pm.md]

---------------------------------------------------------------------------
(* The state as records, and how an operation's result is written back.    *)

St == [fs |-> fs, dirs |-> dirs, log |-> log, hashes |-> hashes]
Eng == [conn |-> conn, hasTables |-> hasTables, tables |-> tables, parquet |-> parquet]

\* no write session has been opened, no reindex has run, and no
\* modification time has been read
NoCursor == [open |-> FALSE, snapshot |-> EmptyTables, calls |-> <<>>,
             expect |-> EmptyTables]
NoPipe ==
    [pc |-> "idle", run |-> 0, todo |-> <<>>, prod |-> "idle", queue |-> <<>>,
     cons |-> "idle", batch |-> <<>>, index |-> [k \in Kinds |-> <<>>],
     embeds |-> <<>>, produced |-> <<>>, written |-> {}, old |-> EmptyTables,
     first |-> EmptyTables, raised |-> "none", times |-> [k \in FileKeys |-> 0]]
NoTimes == [k \in FileKeys |-> 0]

\* what the last call was and how it ended: at is the step that raised,
\* "none" if it returned; fault is the failure injected into the call
FacadeResult(op, kind, name, fault, at) ==
    [op |-> op, kind |-> kind, name |-> name, fault |-> fault, at |-> at]

Result(op, kind, name, at) == FacadeResult(op, kind, name, "-", at)

SetStore(st) == /\ fs' = st.fs
                /\ dirs' = st.dirs
                /\ log' = st.log
                /\ hashes' = st.hashes

SetEngine(eng) == /\ conn' = eng.conn
                  /\ hasTables' = eng.hasTables
                  /\ tables' = eng.tables
                  /\ parquet' = eng.parquet

\* an exit that clears the engine's reference and leaves the FileStore's
DetachEngineOnly(st) == /\ fsTxn' = fsTxn
                        /\ engTxn' = FALSE
                        /\ SetStore([st EXCEPT !.log = <<>>])

\* Transaction.__exit__, the finally: both references and the log are reset
Detach(st) == /\ fsTxn' = FALSE
              /\ engTxn' = FALSE
              /\ SetStore([st EXCEPT !.log = <<>>])

engineVars == <<conn, hasTables, tables, parquet>>
storeVars == <<fs, dirs, log, hashes>>

---------------------------------------------------------------------------
(* The coordinator used directly: a caller opens a scope, calls the        *)
(* FileStore and the engine in its body, and leaves the scope normally or  *)
(* with an exception.                                                      *)

TxnKeys == {<<"skills", "a", "SKILL.md">>, <<"skills", "a", "scripts", "run.py">>}
TxnDirs == {<<"skills", "a">>, <<"skills", "a", "scripts">>}
TxnBytes == {Raw("x1"), Raw("x2")}
Preset == <<"set", "u0">>
TxnEntries ==
    {IndexEntry("a", NoText, tu[1], tu[2], <<RootPath("skills", "a")>>, 0) :
        tu \in {<<"skills", None>>, <<"skills", Preset>>, <<"roles", None>>,
                <<NoType, None>>}}

\* with Transaction(file_store, engine): __init__ and __enter__
TxnEnter ==
    /\ UNCHANGED <<cur, pipe, mtime>>
    /\ staged0' = Len(metadata)
    /\ ~fsTxn
    /\ fsTxn' = TRUE
    /\ engTxn' = TRUE
    /\ log' = <<>>
    /\ hashes' = <<>>
    /\ fs0' = fs
    /\ last' = Result("enter", "-", "-", "none")
    /\ UNCHANGED <<fs, dirs, metadata, readOnly, ops>>
    /\ UNCHANGED engineVars

\* file_store.save(key, data), in the body of a scope or outside one
FsSave(key, data) ==
    /\ UNCHANGED auxVars
    /\ ops < MaxOps
    /\ ops' = ops + 1
    /\ SetStore(Save(St, key, data, fsTxn))
    /\ last' = Result("save", "-", "-", "none")
    /\ UNCHANGED <<fsTxn, engTxn, metadata, readOnly, fs0>>
    /\ UNCHANGED engineVars

\* file_store.delete(key, recursive), in the body of a scope or outside one
FsDelete(key, recursive) ==
    /\ UNCHANGED auxVars
    /\ ops < MaxOps
    /\ ops' = ops + 1
    /\ IF DeleteRaises(St, key, recursive)
       THEN /\ UNCHANGED storeVars
            /\ last' = Result("delete", "-", "-", "rm")
       ELSE /\ SetStore(Delete(St, key, recursive, fsTxn))
            /\ last' = Result("delete", "-", "-", "none")
    /\ UNCHANGED <<fsTxn, engTxn, metadata, readOnly, fs0>>
    /\ UNCHANGED engineVars

\* an engine that stages whether or not a transaction is attached
StageAlways(action, entry) ==
    /\ UNCHANGED auxVars
    /\ ops < MaxOps
    /\ ops' = ops + 1
    /\ metadata' = Append(metadata, <<action, entry>>)
    /\ last' = Result(action, entry.type, entry.name, "none")
    /\ UNCHANGED <<fsTxn, engTxn, readOnly, fs0>>
    /\ UNCHANGED storeVars
    /\ UNCHANGED engineVars

\* engine.index(entry) and engine.deindex(entry): staged only under a
\* transaction
Stage(action, entry) ==
    /\ UNCHANGED auxVars
    /\ ops < MaxOps
    /\ ops' = ops + 1
    /\ metadata' = IF engTxn THEN Append(metadata, <<action, entry>>) ELSE metadata
    /\ last' = Result(action, entry.type, entry.name, "none")
    /\ UNCHANGED <<fsTxn, engTxn, readOnly, fs0>>
    /\ UNCHANGED storeVars
    /\ UNCHANGED engineVars

EngIndex(entry) == Stage("upsert", entry)
EngDeindex(entry) == Stage("delete", entry)

\* Transaction.__exit__ with an exception in flight
TxnExitRaise ==
    /\ UNCHANGED auxVars
    /\ fsTxn
    /\ Detach(Rollback(St))
    /\ last' = Result("exit", "-", "-", "body")
    /\ UNCHANGED <<metadata, readOnly, fs0, ops>>
    /\ UNCHANGED engineVars

\* Transaction.__exit__ with no exception in flight
TxnExitCommit(fault) ==
    /\ UNCHANGED auxVars
    /\ fsTxn
    /\ LET c == Commit(St, Eng, metadata, readOnly, fault)
       IN  /\ Detach(c.st)
           /\ SetEngine(c.eng)
           /\ metadata' = c.md
           /\ last' = Result("exit", "-", "-", c.at)
    /\ UNCHANGED <<readOnly, fs0, ops>>

EmptyStore == [k \in FileKeys |-> Absent]

\* a store that holds the template skills/a, wholly, in part or not at all
InitStores ==
    {[k \in FileKeys |-> IF k \in present THEN Raw("x1") ELSE Absent] :
        present \in {{}, {RootPath("skills", "a")}, TxnKeys}}

DirsOf(files) == UNION {Ancestors(k) : k \in {f \in FileKeys : files[f] # Absent}}

InitTxn ==
    /\ cur = NoCursor
    /\ pipe = NoPipe
    /\ mtime = NoTimes
    /\ staged0 = 0
    /\ fs \in InitStores
    /\ dirs = DirsOf(fs)
    /\ fsTxn = FALSE
    /\ engTxn = FALSE
    /\ log = <<>>
    /\ hashes = <<>>
    /\ metadata = <<>>
    /\ conn = FALSE
    /\ hasTables = FALSE
    /\ tables = EmptyTables
    /\ parquet = EmptyTables
    /\ readOnly \in BOOLEAN
    /\ last = Result("init", "-", "-", "none")
    /\ fs0 = fs
    /\ ops = 0

NextTxn ==
    \/ TxnEnter
    \/ \E key \in TxnKeys, data \in TxnBytes : FsSave(key, data)
    \/ \E key \in TxnKeys \cup TxnDirs, recursive \in BOOLEAN : FsDelete(key, recursive)
    \/ \E entry \in TxnEntries : EngIndex(entry)
    \/ \E entry \in {e \in TxnEntries : e.type # NoType /\ e.uuid = None} :
          EngDeindex(entry)
    \/ TxnExitRaise
    \/ \E fault \in Faults : TxnExitCommit(fault)

SpecTxn == InitTxn /\ [][NextTxn]_vars

---------------------------------------------------------------------------
(* PersonaAPI over one FileStore and one engine that was connected and     *)
(* bootstrapped before the facade was built.  Each call is one step.       *)

\* the number of publish_template and delete_template calls of a run
MaxCalls == 2

\* the local templates a caller publishes: kind, name and description after
\* the frontmatter fallback (NoText: neither given), whether the directory
\* has a file beside the root file, and whether the directory listing
\* yields the root file first
Template(kind, name, description, anc, rootFirst) ==
    [kind |-> kind, name |-> name, description |-> description,
     anc |-> anc, rootFirst |-> rootFirst]
\* Template.process_template: entry.description or metadata.get('description')
Resolve(given, front) == IF given # NoText THEN given ELSE front
Templates ==
    {Template("skills", "a", Resolve("d1", "d2"), TRUE, TRUE),
     Template("skills", "a", Resolve("d1", NoText), TRUE, FALSE),
     Template("skills", "a", Resolve(NoText, "d2"), FALSE, TRUE),
     Template("skills", "b", Resolve(NoText, "d1"), FALSE, TRUE),
     Template("roles", "a", Resolve("d1", "d1"), FALSE, TRUE),
     Template("roles", "b", Resolve(NoText, NoText), FALSE, TRUE)}

\* PersonaRootSourceFile.update_metadata: the root file with name and
\* description written into its frontmatter
UpdateMetadata(name, description) == Raw(name \o ":" \o description)
\* SourceFile.content of the file beside the root file
AncBytes == Raw("run")

\* the storage keys of a template in the order the directory listing
\* yields its files
GlobOrder(tpl) ==
    IF ~tpl.anc THEN <<RootPath(tpl.kind, tpl.name)>>
    ELSE IF tpl.rootFirst
         THEN <<RootPath(tpl.kind, tpl.name), AncPath(tpl.kind, tpl.name)>>
         ELSE <<AncPath(tpl.kind, tpl.name), RootPath(tpl.kind, tpl.name)>>

ContentOf(tpl, key) ==
    IF key = RootPath(tpl.kind, tpl.name)
    THEN UpdateMetadata(tpl.name, tpl.description)
    ELSE AncBytes

RECURSIVE SaveAll(_, _, _)
\* Template.process_template, the loop: each file is saved under its key
SaveAll(st, tpl, keys) ==
    IF keys = <<>> THEN st
    ELSE SaveAll(Save(st, Head(keys), ContentOf(tpl, Head(keys)), TRUE), tpl, Tail(keys))

\* Template.process_template raises: no name or no description
ProcessTemplateRaises(tpl) == tpl.description = NoText

\* Template.process_template: [st, entry], the store after the saves and
\* the entry handed to engine.index
ProcessTemplate(st, tpl, date) ==
    [st |-> SaveAll(st, tpl, GlobOrder(tpl)),
     entry |-> [IndexEntry(tpl.name, tpl.description, tpl.kind, None,
                           GlobOrder(tpl), date)
                   EXCEPT !.embedding = Encode(tpl.description)]]

\* Template.process_template up to a failure after its first save
FirstSave(st, tpl) == SaveAll(st, tpl, <<Head(GlobOrder(tpl))>>)

\* the failures of publish_template: those of the commit, and "save", a
\* failure in process_template after its first save
PublishFaults == Faults \cup {"save"}

\* Transaction.__init__: a new coordinator has an empty log and hash map
NewScope(st) == [st EXCEPT !.log = <<>>, !.hashes = <<>>]

\* BaseFileStore.glob(kind/name/**/*), the files: fsspec returns them sorted
GlobFiles(st, dir) ==
    SelectSeq(PathOrder, LAMBDA k : IsUnder(k, dir) /\ st.fs[k] # Absent)

RECURSIVE DeleteAll(_, _)
DeleteAll(st, keys) ==
    IF keys = <<>> THEN st
    ELSE DeleteAll(Delete(st, Head(keys), FALSE, TRUE), Tail(keys))


\* engine.read_session() followed by a query raises: get_cursor without a
\* connection, or a query of a table that was never created
ReadRaises(eng) == ~eng.conn \/ ~eng.hasTables

Error == <<"error">>

\* PersonaAPI.list_templates: the rows of the kind, or the error raised
ListTemplatesResult(eng, kind) ==
    IF ReadRaises(eng) THEN Error ELSE <<"rows", eng.tables[kind]>>

\* PersonaAPI.get_skill_files: the bytes of each file of the skill's row, or
\* the error raised (no connection, no row, a file that cannot be loaded)
GetSkillFilesResult(files, eng, name) ==
    IF ReadRaises(eng) \/ ~RowExists(eng.tables["skills"], name) THEN Error
    ELSE LET row == CHOOSE r \in eng.tables["skills"] : r.name = name
             paths == {row.files[i] : i \in 1..Len(row.files)}
         IN  IF \E k \in paths : files[k] = Absent THEN Error
             ELSE <<"files", {<<k, files[k]>> : k \in paths}>>

\* PersonaAPI.publish_template
PublishTemplate(tpl, date, fault) ==
    /\ UNCHANGED auxVars
    /\ ops < MaxCalls
    /\ ops' = ops + 1
    /\ fs0' = fs
    /\ IF ProcessTemplateRaises(tpl)
       THEN /\ Detach(Rollback(NewScope(St)))
            /\ last' = FacadeResult("publish_template", tpl.kind, tpl.name, fault, "body")
            /\ UNCHANGED metadata
            /\ UNCHANGED engineVars
       ELSE IF fault = "save"
       THEN /\ Detach(Rollback(FirstSave(NewScope(St), tpl)))
            /\ last' = FacadeResult("publish_template", tpl.kind, tpl.name, fault, "body")
            /\ UNCHANGED metadata
            /\ UNCHANGED engineVars
       ELSE LET p == ProcessTemplate(NewScope(St), tpl, date)
                c == Commit(p.st, Eng, Append(metadata, <<"upsert", p.entry>>),
                            readOnly, fault)
            IN  /\ Detach(c.st)
                /\ SetEngine(c.eng)
                /\ metadata' = c.md
                /\ last' = FacadeResult("publish_template", tpl.kind, tpl.name, fault, c.at)
    /\ UNCHANGED readOnly

\* PersonaAPI.delete_template
DeleteTemplate(kind, name, date, fault) ==
    /\ UNCHANGED auxVars
    /\ ops < MaxCalls
    /\ ops' = ops + 1
    /\ fs0' = fs
    /\ IF ReadRaises(Eng) \/ ~RowExists(tables[kind], name)
       THEN /\ Detach(Rollback(NewScope(St)))
            /\ last' = FacadeResult("delete_template", kind, name, fault, "body")
            /\ UNCHANGED metadata
            /\ UNCHANGED engineVars
       ELSE LET st0 == NewScope(St)
                st1 == DeleteAll(st0, GlobFiles(st0, TemplateDir(kind, name)))
                st2 == Delete(st1, TemplateDir(kind, name), TRUE, TRUE)
                entry == IndexEntry(name, NoText, kind, None, <<>>, date)
                c == Commit(st2, Eng, Append(metadata, <<"delete", entry>>),
                            readOnly, fault)
            IN  /\ Detach(c.st)
                /\ SetEngine(c.eng)
                /\ metadata' = c.md
                /\ last' = FacadeResult("delete_template", kind, name, fault, c.at)
    /\ UNCHANGED readOnly

\* PersonaAPI.get_skill_version: the lookup runs inside engine.open(), whose
\* finally closes the engine
GetSkillVersion(name) ==
    LET e1 == Connect(Eng)
        raised == ReadRaises(e1) \/ ~RowExists(e1.tables["skills"], name)
    IN  /\ SetEngine(Close(e1, readOnly, "none"))
        /\ UNCHANGED auxVars
        /\ last' = FacadeResult("get_skill_version", "skills", name, "none",
                                IF raised THEN "body"
                                ELSE IF CloseRaises(e1, readOnly, "none") THEN "export"
                                ELSE "none")
        /\ UNCHANGED <<fsTxn, engTxn, metadata, readOnly, fs0, ops>>
        /\ UNCHANGED storeVars

\* PersonaAPI.list_templates
ListTemplates(kind) ==
    /\ UNCHANGED auxVars
    /\ last' = FacadeResult("list_templates", kind, "-", "none",
                            IF ListTemplatesResult(Eng, kind) = Error THEN "body" ELSE "none")
    /\ UNCHANGED <<fsTxn, engTxn, metadata, readOnly, fs0, ops>>
    /\ UNCHANGED storeVars
    /\ UNCHANGED engineVars

\* PersonaAPI.get_skill_files
GetSkillFiles(name) ==
    /\ UNCHANGED auxVars
    /\ last' = FacadeResult("get_skill_files", "skills", name, "none",
                            IF GetSkillFilesResult(fs, Eng, name) = Error THEN "body" ELSE "none")
    /\ UNCHANGED <<fsTxn, engTxn, metadata, readOnly, fs0, ops>>
    /\ UNCHANGED storeVars
    /\ UNCHANGED engineVars

\* a registry that holds the skill "a", published by a writable engine that
\* was not connected before
Published ==
    LET p == ProcessTemplate([fs |-> EmptyStore, dirs |-> {}, log |-> <<>>, hashes |-> <<>>],
                             Template("skills", "a", "d1", TRUE, TRUE), 0)
    IN  Commit(p.st,
               [conn |-> FALSE, hasTables |-> FALSE, tables |-> EmptyTables,
                parquet |-> EmptyTables],
               <<<<"upsert", p.entry>>>>, FALSE, "none")

\* the facade is built over an engine that is connected and bootstrapped
\* from the persisted files, of an empty registry or of one with a skill
Init ==
    /\ cur = NoCursor
    /\ pipe = NoPipe
    /\ mtime = NoTimes
    /\ staged0 = 0
    /\ \/ fs = EmptyStore /\ dirs = {} /\ parquet = EmptyTables
       \/ fs = Published.st.fs /\ dirs = Published.st.dirs
            /\ parquet = Published.eng.parquet
    /\ tables = parquet
    /\ conn = TRUE
    /\ hasTables = TRUE
    /\ fsTxn = FALSE
    /\ engTxn = FALSE
    /\ log = <<>>
    /\ hashes = <<>>
    /\ metadata = <<>>
    /\ readOnly \in BOOLEAN
    /\ last = FacadeResult("init", "-", "-", "none", "none")
    /\ fs0 = fs
    /\ ops = 0

Next ==
    \/ \E tpl \in Templates, date \in Times, fault \in PublishFaults :
          PublishTemplate(tpl, date, fault)
    \/ \E kind \in Kinds, name \in Names, date \in Times, fault \in Faults :
          DeleteTemplate(kind, name, date, fault)
    \/ \E name \in Names : GetSkillVersion(name)
    \/ \E kind \in Kinds : ListTemplates(kind)
    \/ \E name \in Names : GetSkillFiles(name)

Spec == Init /\ [][Next]_vars

---------------------------------------------------------------------------
(* Properties of the coordinator, checked under SpecTxn.                   *)

\* the last call left a scope with an exception raised in its body
ExitedByRaise == last.op = "exit" /\ last.at = "body"
\* the last call left a scope normally and a step of the commit raised
ExitedByFailedCommit == last.op = "exit" /\ last.at \notin {"none", "body"}
\* the last call left a scope normally and the commit went through
ExitedByCommit == last.op = "exit" /\ last.at = "none"

\* C1: rollback law.  After a scope whose body raised, every key of the
\* FileStore holds the bytes it held at scope entry and keys absent at entry
\* are absent again, whatever saves and deletes (recursive directory
\* deletes included) the body made.
C1_RollbackLaw == ExitedByRaise => fs = fs0

\* C2: after a scope that exits normally and whose commit fails at any step
\* (staged metadata, a manifest, the metastore upsert, remove, commit or
\* flush), the FileStore holds its scope-entry contents again, the manifests
\* written during the commit included.
C2_CommitFailureRestores == ExitedByFailedCommit => fs = fs0

\* C4: after a scope exits by any path the coordinator's log and the
\* engine's staged-metadata list are empty, so that a later scope on the
\* same engine sees only what it staged itself.  (The hash map belongs to
\* the exited Transaction object, which no later scope uses.)
C4_ExitClearsStaging == last.op = "exit" => (log = <<>> /\ metadata = <<>>)

---------------------------------------------------------------------------
(* The transaction id as a function of what a scope did (C7).  The scope   *)
(* the model is in is compared with every other short scope body run from  *)
(* the same scope-entry store.                                             *)

\* the longest alternative scope body
MaxAlt == 2

AltOps ==
    {<<"save", k, b>> : k \in TxnKeys, b \in TxnBytes}
        \cup {<<"delete", k, Absent>> : k \in TxnKeys}
AltBodies == UNION {[1..n -> AltOps] : n \in 0..MaxAlt}

RECURSIVE RunBody(_, _)
\* the store after a scope body of save and delete calls
RunBody(st, body) ==
    IF body = <<>> THEN st
    ELSE LET c == Head(body)
         IN  RunBody(IF c[1] = "save" THEN Save(st, c[2], c[3], TRUE)
                     ELSE Delete(st, c[2], FALSE, TRUE),
                     Tail(body))

\* the store as it was when the current scope was entered
EntryStore == [fs |-> fs0, dirs |-> DirsOf(fs0), log |-> <<>>, hashes |-> <<>>]

LoggedKeys(lg) == {lg[i][2] : i \in 1..Len(lg)}
PairSet(h) == {h[i] : i \in 1..Len(h)}
SortedByKey(pairs) ==
    \A i, j \in 1..Len(pairs) : i < j => Rank(pairs[i][1]) < Rank(pairs[j][1])

\* C7 as stated: two scopes that change the same keys and leave the same
\* final file contents have equal transaction ids, whatever the order of
\* their saves and deletes, a key saved and later deleted included.
C7_IdOfFinalContents ==
    fsTxn => \A body \in AltBodies :
                LET r == RunBody(EntryStore, body)
                IN  (r.fs = fs /\ LoggedKeys(r.log) = LoggedKeys(log))
                        => TransactionId(r.hashes) = TransactionId(hashes)

\* C7, amended: the transaction id is the digest of the key-sorted map from
\* storage path to md5 of the bytes last recorded for the path (the bytes of
\* its last save, or the bytes an existing file held when it was deleted: a
\* deleted key stays in the map); a key still on the store maps to the md5
\* of its bytes; and two scopes that record the same map have equal ids
\* whatever the order of their calls, a key saved more than once included.
C7_IdOfRecordedMap ==
    fsTxn =>
        /\ SortedByKey(TransactionId(hashes)[2])
        /\ PairSet(TransactionId(hashes)[2]) = PairSet(hashes)
        /\ \A i \in 1..Len(hashes) :
              fs[hashes[i][1]] # Absent => hashes[i][2] = Md5(fs[hashes[i][1]])
        /\ \A body \in AltBodies :
              LET r == RunBody(EntryStore, body)
              IN  PairSet(r.hashes) = PairSet(hashes)
                      => TransactionId(r.hashes) = TransactionId(hashes)

\* two keys were recorded in the scope, the later key of the two first
C7_Witness ==
    /\ fsTxn
    /\ Len(hashes) = 2
    /\ Rank(hashes[1][1]) > Rank(hashes[2][1])
    /\ \E i \in 1..2 : fs[hashes[i][1]] = Absent

---------------------------------------------------------------------------
(* Durability of a commit (C9).                                            *)

StagedTypes == {metadata[i][2].type : i \in 1..Len(metadata)} \ {NoType}

\* the tables of an engine freshly connected and bootstrapped from the
\* persisted files
FreshTables == Bootstrap(Connect(Disconnected(Eng))).tables

\* every staged change of the committed scope is in the given table: a name
\* staged for deletion has no row, and the last upsert of any other name is
\* the row of that name
StagedChangesIn(table) ==
    \A i \in 1..Len(metadata) :
        LET name == metadata[i][2].name
            deleted == \E j \in 1..Len(metadata) :
                          IsDelete(metadata[j]) /\ metadata[j][2].name = name
            lastUp == \A j \in (i + 1)..Len(metadata) :
                          ~(IsUpsert(metadata[j]) /\ metadata[j][2].name = name)
        IN  IF deleted THEN ~RowExists(table, name)
            ELSE lastUp => RowOf(metadata[i][2]) \in table

\* C9 as stated: whenever a scope with staged upserts or deletes exits
\* successfully, an engine freshly bootstrapped from the persisted files
\* holds the committed rows, for every engine the coordinator is given.
C9_CommitIsDurable ==
    (ExitedByCommit /\ StagedTypes # {})
        => \A t \in StagedTypes : StagedChangesIn(FreshTables[t])

\* C9, amended: the same, for every engine opened writable.
C9_WritableCommitIsDurable ==
    (ExitedByCommit /\ StagedTypes # {} /\ ~readOnly)
        => \A t \in StagedTypes : StagedChangesIn(FreshTables[t])

\* a writable engine has committed a scope and the persisted table has a row
C9_Witness ==
    /\ ExitedByCommit
    /\ ~readOnly
    /\ StagedTypes = {"skills"}
    /\ FreshTables["skills"] # {}

---------------------------------------------------------------------------
(* Staged entries of more than one kind (C11).                             *)

\* C11: if the staged entries carry more than one kind, the exit of the
\* scope raises, no metadata table and no persisted file is modified, no
\* manifest is left on the FileStore and every FileStore change made in the
\* scope is rolled back.
C11_MixedKindsRollBack ==
    [][(fsTxn /\ Cardinality(StagedTypes) > 1 /\ last'.op = "exit" /\ last'.at # "body")
        => /\ last'.at = "process_metadata"
           /\ tables' = tables
           /\ parquet' = parquet
           /\ fs' = fs0]_vars

---------------------------------------------------------------------------
(* Properties of the facade, checked under Spec.                           *)

\* the last call was a publish_template that returned
Published1 == last.op = "publish_template" /\ last.at = "none"
\* the entry staged by the last publish_template or delete_template
LastEntry == metadata[Len(metadata)][2]

\* the table a reader sees: the connected engine's, or that of an engine
\* freshly bootstrapped from the persisted files
VisibleTables == IF conn /\ hasTables THEN tables ELSE FreshTables

C5_RowIffRootFile ==
    \A kind \in Kinds, name \in Names :
        RowExists(VisibleTables[kind], name) <=> fs[RootPath(kind, name)] # Absent

\* the id of a scope that saves exactly the files of a template
TemplateId(kind, name, description, anc) ==
    HashOf(<<<<RootPath(kind, name), Md5(UpdateMetadata(name, description))>>>>
           \o IF anc THEN <<<<AncPath(kind, name), Md5(AncBytes)>>>> ELSE <<>>)

\* C6: every published entry, and every row written from one, carries the
\* id of its own template: a function of the storage paths and bytes saved
\* for it, the same at every publish whatever the listing order, the
\* timestamp, the manifests and the earlier publishes; an entry that already
\* has a uuid when a later commit processes it keeps it.
C6_UuidOfTemplate ==
    /\ \A i \in 1..Len(metadata) :
          LET e == metadata[i][2]
          IN  (IsUpsert(metadata[i]) /\ e.uuid # None)
                  => e.uuid = TemplateId(e.type, e.name, e.description, Len(e.files) > 1)
    /\ \A kind \in Kinds :
          \A r \in tables[kind] \cup parquet[kind] :
              r.uuid = TemplateId(kind, r.name, r.description, Len(r.files) > 1)

\* the same template was published twice, at different times or with its
\* files listed in a different order, the second publish committed, and
\* both entries have the same uuid
C6_Witness ==
    /\ Published1
    /\ \E i, j \in 1..Len(metadata) :
          LET e == metadata[i][2]
              f == metadata[j][2]
          IN  /\ i < j
              /\ IsUpsert(metadata[i]) /\ IsUpsert(metadata[j])
              /\ e.type = f.type /\ e.name = f.name /\ e.description = f.description
              /\ Len(e.files) = 2 /\ Len(f.files) = 2
              /\ e.files # f.files
              /\ e.date_created # f.date_created
              /\ e.uuid # None /\ e.uuid = f.uuid

\* C8: for the entry committed by a publish, files[0] is the storage path of
\* the root file whatever the listing order, the file is on the FileStore,
\* the md5 of its bytes is the entry's etag, and the manifest is written in
\* the template directory.
C8_FirstFileIsRoot ==
    Published1 =>
        /\ LastEntry.files[1] = RootPath(LastEntry.type, LastEntry.name)
        /\ fs[LastEntry.files[1]] # Absent
        /\ LastEntry.etag = Md5(fs[LastEntry.files[1]])
        /\ ManifestPath(RowOf(LastEntry))
              = TemplateDir(LastEntry.type, LastEntry.name) \o <<".manifest.json">>

\* C10: after a facade call that returned, list_templates on the same
\* facade succeeds, and after publish_template it returns exactly one row
\* for the published template.
C10_FacadeKeepsConnection ==
    (last.at = "none" /\ last.op \in {"publish_template", "delete_template",
                                     "get_skill_version", "list_templates"})
        => /\ \A kind \in Kinds : ListTemplatesResult(Eng, kind) # Error
           /\ last.op = "publish_template"
                 => Cardinality({r \in tables[last.kind] : r.name = last.name}) = 1

---------------------------------------------------------------------------
(* The engine used directly, as the commands of the CLI and the tests do:  *)
(* connect, bootstrap, write sessions with their calls, searches, close.   *)

\* the number of calls of one run of the engine
MaxSteps == 6

\* the rows a session upserts
EngineRow(name, description) ==
    RowOf([IndexEntry(name, description, NoType, Preset, <<>>, 0)
              EXCEPT !.embedding = Encode(description)])
EngineRows == {EngineRow(n, d) : n \in Names, d \in Descs}
RowLists == {<<r>> : r \in EngineRows}
               \cup {<<r1, r2>> : r1 \in EngineRows, r2 \in {EngineRow("a", "d2")}}
KeyLists == {<<"a">>, <<"b">>, <<"a", "b">>}

\* the failures injected into a write session: none, an exception raised in
\* the body, an exception raised by cursor.commit()
SessionFaults == {"none", "body", "commit"}

EngineResult(op, kind, fault, at) == FacadeResult(op, kind, "-", fault, at)

\* session(), up to the yield: get_cursor() and cursor.begin(); the
\* transaction works on the tables and the tables at begin are kept for
\* the rollback
BeginSession(eng) ==
    [open |-> TRUE, snapshot |-> eng.tables, calls |-> <<"begin">>,
     expect |-> eng.tables]

\* a session exit that commits whatever happened
EndSessionCommitAlways(c, tbls, raised) ==
    [cur |-> [c EXCEPT !.open = FALSE, !.calls = @ \o <<"commit", "close">>],
     tables |-> tbls, at |-> raised]

\* session(), from the yield on: commit if the body returned; on an
\* exception of the body or of the commit, rollback and raise; the cursor
\* is closed in the finally
EndSession(c, tbls, raised) ==
    IF raised = "none"
    THEN [cur |-> [c EXCEPT !.open = FALSE, !.calls = @ \o <<"commit", "close">>],
          tables |-> tbls, at |-> "none"]
    ELSE IF raised = "body"
         THEN [cur |-> [c EXCEPT !.open = FALSE,
                                 !.calls = @ \o <<"rollback", "close">>],
               tables |-> c.snapshot, at |-> "body"]
         ELSE [cur |-> [c EXCEPT !.open = FALSE,
                                 !.calls = @ \o <<"commit_raised", "rollback", "close">>],
               tables |-> c.snapshot, at |-> "commit"]

\* a truncate that leaves the rows where they are
KeepTables(tbls) == tbls

\* TRUNCATE roles; TRUNCATE skills;
TruncateTables(tbls) == [k \in Kinds |-> {}]

\* what a table is expected to hold after an upsert: for every name among
\* the rows the last row given under it, and the other rows as they were
ExpectUpsert(table, rows) ==
    {r \in table : \A i \in 1..Len(rows) : rows[i].name # r.name}
        \cup {rows[i] : i \in {j \in 1..Len(rows) :
                                 \A k \in (j + 1)..Len(rows) : rows[k].name # rows[j].name}}
ExpectRemove(table, keys) ==
    {r \in table : r.name \notin {keys[i] : i \in 1..Len(keys)}}

EngineConnect ==
    /\ UNCHANGED staged0
    /\ ops < MaxSteps /\ ~cur.open
    /\ SetEngine(Connect(Eng))
    /\ last' = EngineResult("connect", "-", "none", "none")
    /\ ops' = ops + 1
    /\ UNCHANGED <<storeVars, fsTxn, engTxn, metadata, readOnly, fs0, auxVars>>

EngineBootstrap ==
    /\ UNCHANGED staged0
    /\ ops < MaxSteps /\ ~cur.open
    /\ IF BootstrapRaises(Eng)
       THEN /\ last' = EngineResult("bootstrap", "-", "none", "bootstrap")
            /\ UNCHANGED engineVars
       ELSE /\ SetEngine(Bootstrap(Eng))
            /\ last' = EngineResult("bootstrap", "-", "none", "none")
    /\ ops' = ops + 1
    /\ UNCHANGED <<storeVars, fsTxn, engTxn, metadata, readOnly, fs0, auxVars>>

EngineClose(fault) ==
    /\ UNCHANGED staged0
    /\ ops < MaxSteps /\ ~cur.open
    /\ SetEngine(Close(Eng, readOnly, fault))
    /\ last' = EngineResult("close", "-", fault,
                            IF CloseRaises(Eng, readOnly, fault) THEN "export" ELSE "none")
    /\ ops' = ops + 1
    /\ UNCHANGED <<storeVars, fsTxn, engTxn, metadata, readOnly, fs0, auxVars>>

\* with engine.session() as session: get_cursor raises on a closed engine
SessionEnter ==
    /\ UNCHANGED staged0
    /\ ops < MaxSteps /\ ~cur.open
    /\ IF conn
       THEN /\ cur' = BeginSession(Eng)
            /\ last' = EngineResult("session", "-", "none", "none")
       ELSE /\ last' = EngineResult("session", "-", "none", "get_cursor")
            /\ UNCHANGED cur
    /\ ops' = ops + 1
    /\ UNCHANGED <<storeVars, engineVars, fsTxn, engTxn, metadata, readOnly, fs0,
                   pipe, mtime>>

SessionUpsert(kind, rows) ==
    /\ UNCHANGED staged0
    /\ ops < MaxSteps /\ cur.open /\ hasTables
    /\ tables' = [tables EXCEPT ![kind] = Upsert(@, rows)]
    /\ cur' = [cur EXCEPT !.expect[kind] = ExpectUpsert(@, rows)]
    /\ last' = EngineResult("upsert", kind, "none", "none")
    /\ ops' = ops + 1
    /\ UNCHANGED <<storeVars, conn, hasTables, parquet, fsTxn, engTxn, metadata,
                   readOnly, fs0, pipe, mtime>>

SessionRemove(kind, keys) ==
    /\ UNCHANGED staged0
    /\ ops < MaxSteps /\ cur.open /\ hasTables
    /\ tables' = [tables EXCEPT ![kind] = Remove(@, keys)]
    /\ cur' = [cur EXCEPT !.expect[kind] = ExpectRemove(@, keys)]
    /\ last' = EngineResult("remove", kind, "none", "none")
    /\ ops' = ops + 1
    /\ UNCHANGED <<storeVars, conn, hasTables, parquet, fsTxn, engTxn, metadata,
                   readOnly, fs0, pipe, mtime>>

SessionTruncate ==
    /\ UNCHANGED staged0
    /\ ops < MaxSteps /\ cur.open /\ hasTables
    /\ tables' = TruncateTables(tables)
    /\ cur' = [cur EXCEPT !.expect = EmptyTables]
    /\ last' = EngineResult("truncate_tables", "-", "none", "none")
    /\ ops' = ops + 1
    /\ UNCHANGED <<storeVars, conn, hasTables, parquet, fsTxn, engTxn, metadata,
                   readOnly, fs0, pipe, mtime>>

\* the end of the with block; on an engine without tables every call of
\* the body raises, so the body cannot have returned
SessionExit(raised) ==
    /\ UNCHANGED staged0
    /\ cur.open
    /\ raised = "none" => hasTables
    /\ LET r == EndSession(cur, tables, raised)
       IN  /\ cur' = r.cur
           /\ tables' = r.tables
           /\ last' = EngineResult("exit", "-", raised, r.at)
    /\ UNCHANGED <<storeVars, conn, hasTables, parquet, fsTxn, engTxn, metadata,
                   readOnly, fs0, ops, pipe, mtime>>

\* the queries of a search, and the cosine distance of a query to the
\* embedding of a description, in units of 0.0001
Queries == {"q1", "q2"}
Distance(query, embedding) ==
    IF query = "q1" THEN (IF embedding[2] = "d1" THEN 1231 ELSE 1234)
    ELSE (IF embedding[2] = "d1" THEN 500 ELSE 2600)

\* ROUND(x, 3): the score, in units of 0.001
Round3(x) == (x + 5) \div 10
Score(query, row) == Round3(Distance(query, row.embedding))

\* the arguments of a search: limit, and max_cosine_distance in units of
\* 0.001 or None
Limits == {1, 2}
NoMax == -1
MaxDistances == {NoMax, 50, 123}

\* SELECT ..., ROUND(...) as score FROM table WHERE score <= max
Filtered(table, query, max) == {r \in table : max = NoMax \/ Score(query, r) <= max}

\* ... ORDER BY score ASC LIMIT limit: every answer the query can give.
\* The rows come in ascending score and no row left out has a smaller
\* score than a row returned; rows of equal score come in any order.
SearchAnswers(table, query, limit, max) ==
    LET F == Filtered(table, query, max)
        n == IF Cardinality(F) < limit THEN Cardinality(F) ELSE limit
    IN  {s \in [1..n -> F] :
            /\ \A i, j \in 1..n : i < j => s[i] # s[j] /\ Score(query, s[i]) <= Score(query, s[j])
            /\ \A r \in F : (\A i \in 1..n : s[i] # r)
                              => \A i \in 1..n : Score(query, s[i]) <= Score(query, r)}

\* with engine.read_session() as session: session.search(...)
SessionSearch(kind, query, limit, max) ==
    /\ UNCHANGED staged0
    /\ ops < MaxSteps /\ ~cur.open /\ conn /\ hasTables
    /\ \E s \in SearchAnswers(tables[kind], query, limit, max) :
          last' = [op |-> "search", kind |-> kind, name |-> "-", fault |-> "none",
                   at |-> "none", query |-> query, limit |-> limit, max |-> max,
                   rows |-> [i \in 1..Len(s) |-> [name |-> s[i].name,
                                                  score |-> Score(query, s[i])]]]
    /\ ops' = ops + 1
    /\ UNCHANGED <<storeVars, engineVars, fsTxn, engTxn, metadata, readOnly, fs0,
                   auxVars>>

\* the engine of a command: not connected, read-only or writable, over the
\* persisted files of an empty registry or of one with rows
InitEngine ==
    /\ cur = NoCursor
    /\ pipe = NoPipe
    /\ mtime = NoTimes
    /\ staged0 = 0
    /\ fs = EmptyStore /\ dirs = {}
    /\ parquet \in {EmptyTables,
                    [EmptyTables EXCEPT !["skills"] = {EngineRow("a", "d1"),
                                                       EngineRow("b", "d2")}]}
    /\ tables = EmptyTables
    /\ conn = FALSE
    /\ hasTables = FALSE
    /\ fsTxn = FALSE
    /\ engTxn = FALSE
    /\ log = <<>>
    /\ hashes = <<>>
    /\ metadata = <<>>
    /\ readOnly \in BOOLEAN
    /\ last = EngineResult("init", "-", "none", "none")
    /\ fs0 = fs
    /\ ops = 0

NextEngine ==
    \/ EngineConnect
    \/ EngineBootstrap
    \/ \E fault \in {"none", "export_roles", "export_skills"} : EngineClose(fault)
    \/ SessionEnter
    \/ \E kind \in Kinds, rows \in RowLists : SessionUpsert(kind, rows)
    \/ \E kind \in Kinds, keys \in KeyLists : SessionRemove(kind, keys)
    \/ SessionTruncate
    \/ \E raised \in SessionFaults : SessionExit(raised)
    \/ \E kind \in Kinds, query \in Queries, limit \in Limits, max \in MaxDistances :
          SessionSearch(kind, query, limit, max)

SpecEngine == InitEngine /\ [][NextEngine]_vars

---------------------------------------------------------------------------
(* The reindex command: a producer task that reads the templates of the    *)
(* store, a consumer task that embeds them in batches and writes the       *)
(* manifests, a bounded queue between the two, then one write session      *)
(* that replaces the tables and the export when the engine is closed.      *)
(* The tasks are coroutines of one event loop: a step of a task runs from  *)
(* one await on the queue to the next.                                     *)

\* asyncio.Queue(maxsize=128) and batch_size=32, scaled down together
QueueSize == 2
BatchSize == 2
\* the number of reindex runs in a row
MaxRuns == 2

\* uuid.uuid4().hex: any value
Uuids == {<<"set", "u1">>, <<"set", "u2">>}

Last(path) == path[Len(path)]

\* afs._glob(root/**/SKILL.md) chained with afs._glob(root/**/ROLE.md)
GlobRoots(files) ==
    LET IsSkill(k) == files[k] # Absent /\ Last(k) = "SKILL.md"
        IsRole(k) == files[k] # Absent /\ Last(k) = "ROLE.md"
    IN  SelectSeq(PathOrder, IsSkill) \o SelectSeq(PathOrder, IsRole)

\* template.split('/')[-1].replace('.md', '').lower() + 's'
EntryType(key) == IF Last(key) = "SKILL.md" THEN "skills" ELSE "roles"

\* template.rsplit('/', 1)[0] + '/.manifest.json'
ManifestOf(key) == Parent(key) \o <<".manifest.json">>

\* a manifest that counts as fresh only if it is strictly newer
FreshStrict(template_mtime, manifest_mtime) == template_mtime < manifest_mtime

\* template_mtime <= manifest_mtime
Fresh(template_mtime, manifest_mtime) == template_mtime <= manifest_mtime

\* a clock that stamps every write with the epoch
Epoch(mt) == 0

\* the time a write is stamped with: not earlier than any file of the store
Now(mt) == CHOOSE t \in {mt[k] : k \in FileKeys} : \A k \in FileKeys : mt[k] <= t

\* afs._glob(dir/**/*) without the manifests, in listing order
RelatedFiles(files, key) ==
    LET Related(k) == /\ files[k] # Absent
                      /\ IsUnder(k, Parent(key))
                      /\ Last(k) # ".manifest.json"
    IN  SelectSeq(PathOrder, Related)

\* frontmatter.loads(content).metadata: name and description of a root
\* file, None if the file has no such frontmatter
HasFrontMatter(bytes) == \E n \in Names, d \in Descs : bytes = UpdateMetadata(n, d)
FrontMatter(bytes) ==
    CHOOSE m \in [name : Names, description : Descs] :
        bytes = UpdateMetadata(m.name, m.description)

\* _get_entry_from_manifest
EntryFromManifest(bytes, type, date) ==
    [name |-> bytes[2].name, description |-> bytes[2].description,
     uuid |-> bytes[2].uuid, etag |-> bytes[2].etag, files |-> bytes[2].files,
     embedding |-> None, tags |-> bytes[2].tags, type |-> type,
     date_created |-> date]

\* _get_entry_from_source
EntryFromSource(bytes, files, type, u, date) ==
    [name |-> FrontMatter(bytes).name,
     description |-> FrontMatter(bytes).name \o " - " \o FrontMatter(bytes).description,
     uuid |-> u, etag |-> Md5(bytes), files |-> files, embedding |-> None,
     tags |-> <<>>, type |-> type, date_created |-> date]

\* what travels through the queue: an entry with its manifest path (None:
\* nothing to write), or the None that ends the stream
Item(entry, path) == [tag |-> "entry", entry |-> entry, manifest_path |-> path]
Sentinel == [tag |-> "none"]

\* _template_producer raises: the root file has no name in its frontmatter
ProduceRaises(files, mt, key) ==
    /\ ~(files[ManifestOf(key)] # Absent /\ Fresh(mt[key], mt[ManifestOf(key)]))
    /\ ~HasFrontMatter(files[key])

\* _template_producer, the body of the loop for one root file
Produce(files, mt, key, u, date) ==
    IF files[ManifestOf(key)] # Absent /\ Fresh(mt[key], mt[ManifestOf(key)])
    THEN Item(EntryFromManifest(files[ManifestOf(key)], EntryType(key), date), None)
    ELSE Item(EntryFromSource(files[key], RelatedFiles(files, key), EntryType(key),
                              u, date),
              ManifestOf(key))

\* TagExtractor.extract_tags(ids, texts): the tags of an id, from the texts
\* given under it
TaggedTexts == {"d1"} \cup {n \o " - d1" : n \in Names}
ExtractTags(batch, name) ==
    {batch[i].entry.description : i \in {j \in 1..Len(batch) :
        /\ batch[j].entry.name = name
        /\ batch[j].entry.description \in TaggedTexts}}

\* a consumer that takes the tagger's tags whatever tags the entry has
EmbeddedRetagged(batch, i) ==
    [batch[i].entry EXCEPT
        !.embedding = Encode(batch[i].entry.description),
        !.tags = IF ExtractTags(batch, batch[i].entry.name) # {}
                 THEN <<"tags", ExtractTags(batch, batch[i].entry.name)>>
                 ELSE @]

\* process_batch, one item: embedding and tags are set
Embedded(batch, i) ==
    [batch[i].entry EXCEPT
        !.embedding = Encode(batch[i].entry.description),
        !.tags = IF @ = <<>> /\ ExtractTags(batch, batch[i].entry.name) # {}
                 THEN <<"tags", ExtractTags(batch, batch[i].entry.name)>>
                 ELSE @]

\* a consumer that forgets the entries left when the stream ends
RemainingDropped(batch) == <<>>

\* the batch processed when the None arrives
Remaining(batch) == batch

RECURSIVE ProcessBatch(_, _, _)
\* process_batch, the loop over the items from the i-th on: c is [index,
\* fs, mtime, written]
ProcessBatch(c, batch, i) ==
    IF i > Len(batch) THEN c
    ELSE LET e == Embedded(batch, i)
             path == batch[i].manifest_path
             c1 == [c EXCEPT !.index[e.type] = Append(@, RowOf(e))]
             c2 == IF path = None THEN c1
                   ELSE [c1 EXCEPT !.fs[path] = ManifestBytes(RowOf(e)),
                                   !.mtime[path] = Now(c.mtime),
                                   !.written = @ \cup {path}]
         IN  ProcessBatch(c2, batch, i + 1)

\* reindex: asyncio.run(run_pipeline()) up to the creation of the two tasks,
\* on a writable engine made for this run
ReindexStart ==
    /\ UNCHANGED staged0
    /\ pipe.pc = "idle" /\ pipe.run < MaxRuns
    /\ pipe' = [pipe EXCEPT !.pc = "pipeline", !.run = @ + 1,
                            !.todo = GlobRoots(fs), !.prod = "run", !.queue = <<>>,
                            !.cons = "run", !.batch = <<>>,
                            !.index = [k \in Kinds |-> <<>>], !.embeds = <<>>,
                            !.produced = <<>>, !.written = {}, !.old = parquet,
                            !.raised = "none", !.times = mtime]
    /\ fs0' = fs
    /\ last' = EngineResult("reindex", "-", "none", "none")
    /\ UNCHANGED <<storeVars, engineVars, fsTxn, engTxn, metadata, readOnly, ops,
                   cur, mtime>>

\* _template_producer: the next root file is read and its entry put, or
\* the read raises; after the last one the None is put.  put waits while
\* the queue is full.
ProducerStep(u) ==
    /\ UNCHANGED staged0
    /\ pipe.pc = "pipeline" /\ pipe.prod = "run"
    /\ IF pipe.todo # <<>> /\ ProduceRaises(fs, mtime, Head(pipe.todo))
       THEN pipe' = [pipe EXCEPT !.prod = "failed"]
       ELSE /\ Len(pipe.queue) < QueueSize
            /\ IF pipe.todo # <<>>
               THEN LET item == Produce(fs, mtime, Head(pipe.todo), u, pipe.run)
                    IN  pipe' = [pipe EXCEPT !.todo = Tail(@),
                                             !.queue = Append(@, item),
                                             !.produced = Append(@, item)]
               ELSE pipe' = [pipe EXCEPT !.prod = "done",
                                         !.queue = Append(@, Sentinel)]
    /\ last' = EngineResult("producer", "-", "none", "none")
    /\ UNCHANGED <<storeVars, engineVars, fsTxn, engTxn, metadata, readOnly, fs0,
                   ops, cur, mtime>>

\* _embedding_consumer: one turn of the loop; embed is whether
\* embedder.encode raises in this turn
ConsumerStep(embed) ==
    /\ UNCHANGED staged0
    /\ pipe.pc = "pipeline" /\ pipe.cons = "run" /\ pipe.queue # <<>>
    /\ LET item == Head(pipe.queue)
           batch == IF item.tag = "none" THEN Remaining(pipe.batch)
                    ELSE Append(pipe.batch, item)
           full == item.tag = "none" \/ Len(batch) >= BatchSize
           c == ProcessBatch([index |-> pipe.index, fs |-> fs, mtime |-> mtime,
                              written |-> pipe.written], batch, 1)
       IN  IF full /\ batch # <<>> /\ embed = "raises"
           THEN /\ pipe' = [pipe EXCEPT !.queue = Tail(@), !.cons = "failed",
                                        !.embeds = Append(@, Len(batch))]
                /\ UNCHANGED <<fs, mtime>>
           ELSE /\ embed = "returns"
                /\ IF full
                   THEN /\ pipe' = [pipe EXCEPT
                              !.queue = Tail(@),
                              !.cons = IF item.tag = "none" THEN "done" ELSE @,
                              !.batch = <<>>,
                              !.index = c.index,
                              !.written = c.written,
                              !.embeds = IF batch = <<>> THEN @
                                         ELSE Append(@, Len(batch))]
                        /\ fs' = c.fs
                        /\ mtime' = c.mtime
                   ELSE /\ pipe' = [pipe EXCEPT !.queue = Tail(@), !.batch = batch]
                        /\ UNCHANGED <<fs, mtime>>
    /\ last' = EngineResult("consumer", "-", embed, "none")
    /\ UNCHANGED <<dirs, log, hashes, engineVars, fsTxn, engTxn, metadata, readOnly,
                   fs0, ops, cur>>

\* run_pipeline: await asyncio.gather(producer_task), then await
\* consumer_task.  A failed producer raises out of the gather and
\* asyncio.run cancels the consumer; while the producer runs the caller
\* waits, whatever the consumer did.
PipelineEnd ==
    /\ UNCHANGED staged0
    /\ pipe.pc = "pipeline" /\ pipe.prod \in {"done", "failed"}
    /\ IF pipe.prod = "failed"
       THEN pipe' = [pipe EXCEPT !.pc = "raised", !.raised = "producer",
                                 !.cons = IF @ = "run" THEN "cancelled" ELSE @]
       ELSE /\ pipe.cons \in {"done", "failed"}
            /\ pipe' = IF pipe.cons = "done" THEN [pipe EXCEPT !.pc = "returned"]
                       ELSE [pipe EXCEPT !.pc = "raised", !.raised = "consumer"]
    /\ last' = EngineResult("run_pipeline", "-", "none",
                            IF pipe.prod = "done" /\ pipe.cons = "done" THEN "none"
                            ELSE "pipeline")
    /\ UNCHANGED <<storeVars, engineVars, fsTxn, engTxn, metadata, readOnly, fs0,
                   ops, cur, mtime>>

RECURSIVE UpsertAll(_, _, _, _)
\* for k, v in index.items(): session.upsert(k, v), until the one that raises
UpsertAll(tbls, index, kinds, fault) ==
    IF kinds = <<>> \/ fault = "upsert_" \o Head(kinds) THEN tbls
    ELSE UpsertAll([tbls EXCEPT ![Head(kinds)] = Upsert(@, index[Head(kinds)])],
                   index, Tail(kinds), fault)

\* index_keys=['roles', 'skills']
IndexKeys == <<"roles", "skills">>
ReindexFaults == {"none", "upsert_roles", "upsert_skills"}

\* reindex, after the pipeline: meta_store.open(bootstrap=True), and one
\* session with truncate_tables and the upserts
ReindexSession(fault) ==
    /\ UNCHANGED staged0
    /\ pipe.pc = "returned"
    /\ LET e == Bootstrap(Connect(Eng))
           c == BeginSession(e)
           t == UpsertAll(TruncateTables(e.tables), pipe.index, IndexKeys, fault)
           r == EndSession(c, t, IF fault = "none" THEN "none" ELSE "body")
       IN  /\ SetEngine([e EXCEPT !.tables = r.tables])
           /\ cur' = r.cur
           /\ pipe' = [pipe EXCEPT !.pc = "closing", !.raised = r.at]
           /\ last' = EngineResult("session", "-", fault, r.at)
    /\ UNCHANGED <<storeVars, fsTxn, engTxn, metadata, readOnly, fs0, ops, mtime>>

\* open(), the finally: close() on the writable engine; _export_tables
\* copies the roles table to its file ...
ReindexExportRoles ==
    /\ UNCHANGED staged0
    /\ pipe.pc = "closing"
    /\ parquet' = [parquet EXCEPT !["roles"] = tables["roles"]]
    /\ pipe' = [pipe EXCEPT !.pc = "exporting"]
    /\ last' = EngineResult("export", "roles", "none", "none")
    /\ UNCHANGED <<storeVars, conn, hasTables, tables, fsTxn, engTxn, metadata,
                   readOnly, fs0, ops, cur, mtime>>

\* ... then the skills table, and the connection is closed
ReindexClose ==
    /\ UNCHANGED staged0
    /\ pipe.pc = "exporting"
    /\ SetEngine(Close(Eng, readOnly, "none"))
    /\ pipe' = [pipe EXCEPT !.pc = IF pipe.raised = "none" THEN "idle" ELSE "raised",
                            !.first = IF pipe.run = 1 THEN tables ELSE @]
    /\ last' = EngineResult("close", "-", "none", "none")
    /\ UNCHANGED <<storeVars, fsTxn, engTxn, metadata, readOnly, fs0, ops, cur, mtime>>

\* the templates of a store: a root file with frontmatter, for the skill
\* "a" a script beside it, and the manifest as a publish leaves it, with
\* the modification times of the two
Stored(kind, name, description, manifest) ==
    [kind |-> kind, name |-> name, description |-> description, manifest |-> manifest]
PublishedManifest(t) ==
    ManifestBytes(RowOf(IndexEntry(t.name, t.description, t.kind, Preset,
                                   <<RootPath(t.kind, t.name)>>, 0)))
\* the manifest as a reindex leaves it for a root file with the given
\* description: parsed from source, embedded and tagged alone in its batch
ReindexedManifest(t, description) ==
    LET key == RootPath(t.kind, t.name)
        src == [k \in FileKeys |->
                   IF k = key THEN UpdateMetadata(t.name, description)
                   ELSE IF k = AncPath("skills", "a") /\ t.kind = "skills" /\ t.name = "a"
                   THEN AncBytes
                   ELSE Absent]
        e == EntryFromSource(src[key], RelatedFiles(src, key), t.kind, Preset, 0)
    IN  ManifestBytes(RowOf(Embedded(<<Item(e, ManifestOf(key))>>, 1)))
\* the manifest of a stored template: "reindexed" is the manifest a reindex
\* wrote for the root bytes, "touched" the same with the root file touched
\* since, "edited" one of root bytes that were changed since
ManifestIn(t) ==
    IF t.manifest \in {"reindexed", "touched"} THEN ReindexedManifest(t, t.description)
    ELSE IF t.manifest = "edited"
    THEN ReindexedManifest(t, CHOOSE d \in Descs : d # t.description)
    ELSE PublishedManifest(t)
StoreOf(ts) ==
    [k \in FileKeys |->
        IF \E t \in ts : k = RootPath(t.kind, t.name)
        THEN LET t == CHOOSE t \in ts : k = RootPath(t.kind, t.name)
             IN  IF t.description = NoText THEN Raw("x1")
                 ELSE UpdateMetadata(t.name, t.description)
        ELSE IF \E t \in ts : k = TemplateDir(t.kind, t.name) \o <<".manifest.json">>
                                /\ t.manifest # "none"
        THEN ManifestIn(CHOOSE t \in ts :
                           k = TemplateDir(t.kind, t.name) \o <<".manifest.json">>)
        ELSE IF k = AncPath("skills", "a") /\ \E t \in ts : t.kind = "skills" /\ t.name = "a"
        THEN AncBytes
        ELSE Absent]
TimesOf(ts) ==
    [k \in FileKeys |->
        IF \E t \in ts : k = RootPath(t.kind, t.name)
                          /\ t.manifest \in {"stale", "touched", "edited"} THEN 2
        ELSE IF \E t \in ts : k = TemplateDir(t.kind, t.name) \o <<".manifest.json">>
                                /\ t.manifest = "newer" THEN 2
        ELSE 1]
Layouts ==
    {{},
     {Stored("skills", "a", "d1", "fresh")},
     {Stored("skills", "a", "d1", "stale"), Stored("roles", "a", "d2", "none")},
     {Stored("skills", "a", "d2", "none"), Stored("skills", "b", "d1", "newer"),
      Stored("roles", "a", "d1", "none")},
     {Stored("skills", "a", "d1", "none"), Stored("skills", "b", "d2", "none"),
      Stored("roles", "a", "d1", "fresh"), Stored("roles", "b", "d1", "none")},
     {Stored("roles", "b", "d1", "touched"), Stored("skills", "b", "d1", "edited")},
     {Stored("skills", "a", "d1", "fresh"), Stored("roles", "a", "d1", "reindexed"),
      Stored("roles", "b", "d2", "none")},
     {Stored("skills", "a", "d1", "fresh"), Stored("skills", "b", NoText, "none")}}

\* the tables persisted by an earlier run
OldTables ==
    [roles |-> {EngineRow("b", "d2")}, skills |-> {EngineRow("a", "d2")}]

InitReindex ==
    /\ cur = NoCursor
    /\ pipe = NoPipe
    /\ \E ts \in Layouts : fs = StoreOf(ts) /\ mtime = TimesOf(ts)
    /\ staged0 = 0
    /\ dirs = DirsOf(fs)
    /\ parquet \in {EmptyTables, OldTables}
    /\ tables = EmptyTables
    /\ conn = FALSE
    /\ hasTables = FALSE
    /\ fsTxn = FALSE
    /\ engTxn = FALSE
    /\ log = <<>>
    /\ hashes = <<>>
    /\ metadata = <<>>
    /\ readOnly = FALSE
    /\ last = EngineResult("init", "-", "none", "none")
    /\ fs0 = fs
    /\ ops = 0

NextReindex ==
    \/ ReindexStart
    \/ \E u \in Uuids : ProducerStep(u)
    \/ \E embed \in {"returns", "raises"} : ConsumerStep(embed)
    \/ PipelineEnd
    \/ \E fault \in ReindexFaults : ReindexSession(fault)
    \/ ReindexExportRoles
    \/ ReindexClose

SpecReindex == InitReindex /\ [][NextReindex]_vars

\* the event loop runs every task that can run, and the command goes on
\* when its await returns
SpecReindexFair ==
    /\ SpecReindex
    /\ WF_vars(NextReindex)

---------------------------------------------------------------------------
(* Properties of the engine, checked under SpecEngine.                     *)

Count(seq, x) == Cardinality({i \in 1..Len(seq) : seq[i] = x})

C13_CloseExportsIffWritable ==
    [][(last'.op = "close" /\ ops' = ops + 1)
         => /\ conn => /\ ~conn'
                       /\ parquet' = IF readOnly THEN parquet ELSE tables
            /\ ~conn => UNCHANGED engineVars]_vars

\* C14: after any sequence of upsert, remove and truncate_tables calls on a
\* session each kind table holds at most one row per name, and the row for
\* a name is the one most recently upserted under it and not removed or
\* truncated since (an upsert replaces, it never conflicts on the key).
C14_UpsertReplacesByName ==
    /\ \A kind \in Kinds : \A r1, r2 \in tables[kind] : r1.name = r2.name => r1 = r2
    /\ cur.open => tables = cur.expect

\* an upsert has replaced a row that the table held when the session began
C14_Witness ==
    /\ cur.open /\ last.op = "upsert"
    /\ \E r1 \in cur.snapshot[last.kind], r2 \in tables[last.kind] :
          r1.name = r2.name /\ r1 # r2

NameRank(name) == IF name = "a" THEN 1 ELSE 2

\* the rows of a table within the distance, in the total order (score
\* ascending, then name ascending)
Before(query, r1, r2) ==
    \/ Score(query, r1) < Score(query, r2)
    \/ Score(query, r1) = Score(query, r2) /\ NameRank(r1.name) < NameRank(r2.name)
PlaceOf(F, query, r) == 1 + Cardinality({r2 \in F : Before(query, r2, r)})

\* C15: search returns exactly the first limit rows among those whose score
\* (the cosine distance rounded to 3 decimals) is at most
\* max_cosine_distance, in the total order (score ascending, then name
\* ascending): rows of equal score come in ascending name order.
C15_SearchOrder ==
    last.op = "search"
        => LET F == Filtered(tables[last.kind], last.query, last.max)
               n == IF Cardinality(F) < last.limit THEN Cardinality(F) ELSE last.limit
           IN  /\ Len(last.rows) = n
               /\ \A r \in F : PlaceOf(F, last.query, r) <= n
                     => last.rows[PlaceOf(F, last.query, r)]
                           = [name |-> r.name, score |-> Score(last.query, r)]

\* the same, for searches in which no two rows within the distance have
\* the same score
C15_SearchOrderWithoutTies ==
    (last.op = "search"
       /\ \A r1, r2 \in Filtered(tables[last.kind], last.query, last.max) :
             Score(last.query, r1) = Score(last.query, r2) => r1 = r2)
        => LET F == Filtered(tables[last.kind], last.query, last.max)
               n == IF Cardinality(F) < last.limit THEN Cardinality(F) ELSE last.limit
           IN  /\ Len(last.rows) = n
               /\ \A r \in F : PlaceOf(F, last.query, r) <= n
                     => last.rows[PlaceOf(F, last.query, r)]
                           = [name |-> r.name, score |-> Score(last.query, r)]

---------------------------------------------------------------------------
(* Properties of the reindex command, checked under SpecReindex.           *)

\* the tables a run is to install: the rows of its index, by kind
NewTables == UpsertAll(EmptyTables, pipe.index, IndexKeys, "none")
Installing == pipe.pc \in {"returned", "closing", "exporting"}
UpsertFailed == pipe.pc \in {"closing", "exporting", "raised"} /\ pipe.raised = "body"

\* C16: reindex replaces the tables atomically: a read session on the
\* engine and a process bootstrapping from the persisted files see either
\* the complete old tables or the complete new tables, and if an upsert
\* fails the tables and the persisted files keep their old contents.
C16_ReindexAtomic ==
    /\ Installing => /\ FreshTables \in {pipe.old, NewTables}
                     /\ (conn /\ hasTables) => tables \in {pipe.old, NewTables}
    /\ UpsertFailed => /\ FreshTables = pipe.old
                       /\ (conn /\ hasTables) => tables = pipe.old

\* C16, per table: each table, read in the engine or bootstrapped from its
\* persisted file, is either the complete old table or the complete new
\* one; the files of the two kinds are replaced one after the other.
C16_ReindexAtomicPerTable ==
    /\ Installing => \A kind \in Kinds :
                        /\ FreshTables[kind] \in {pipe.old[kind], NewTables[kind]}
                        /\ (conn /\ hasTables)
                              => tables[kind] \in {pipe.old[kind], NewTables[kind]}
    /\ UpsertFailed => /\ FreshTables = pipe.old
                       /\ (conn /\ hasTables) => tables = pipe.old

\* the roles file is replaced, the skills file not yet, and both change
C16_Witness ==
    /\ pipe.pc = "exporting" /\ pipe.raised = "none"
    /\ FreshTables["roles"] = NewTables["roles"]
    /\ FreshTables["skills"] = pipe.old["skills"]
    /\ NewTables["roles"] # pipe.old["roles"]
    /\ NewTables["skills"] # pipe.old["skills"]
    /\ pipe.old["skills"] # {}

\* C17: the reindex pipeline always terminates, under fair scheduling: if
\* the producer task or the consumer task fails, the failure reaches the
\* caller of the pipeline and no task stays blocked on the bounded queue,
\* also when the consumer fails while the producer has more to put than
\* the queue can hold; the tables are then neither truncated nor updated.
\* Checked under SpecReindexFair.
C17_PipelineTerminates ==
    /\ (pipe.pc = "pipeline") ~> (pipe.pc \in {"returned", "raised"})
    /\ (pipe.pc = "pipeline" /\ (pipe.prod = "failed" \/ pipe.cons = "failed"))
          ~> (pipe.pc = "raised")
    /\ []((pipe.pc = "raised" /\ pipe.raised \in {"producer", "consumer"})
             => (parquet = pipe.old /\ ~conn /\ tables = EmptyTables))

RECURSIVE Sum(_)
Sum(seq) == IF seq = <<>> THEN 0 ELSE Head(seq) + Sum(Tail(seq))

\* the entries produced for a kind, in production order, as the rows the
\* consumer is to build from them (the tags are the tagger's)
ExpectedIndex(produced, kind) ==
    LET OfKind(item) == item.entry.type = kind
        items == SelectSeq(produced, OfKind)
    IN  [i \in 1..Len(items) |->
            RowOf([items[i].entry EXCEPT
                      !.embedding = Encode(items[i].entry.description),
                      !.tags = <<>>])]
Untagged(rows) == [i \in 1..Len(rows) |-> [rows[i] EXCEPT !.tags = <<>>]]

\* C18: in a run in which neither task fails the producer puts one entry
\* per root file found and then exactly one None; the consumer ends after
\* the None and has processed every entry exactly once: the index holds
\* each entry once, under its kind, in production order, the last batch of
\* fewer than batch_size entries included, and no embed call gets more than
\* batch_size entries.
C18_EveryEntryOnce ==
    /\ \A i \in 1..Len(pipe.queue) :
          pipe.queue[i].tag = "none"
             => (i = Len(pipe.queue) /\ pipe.todo = <<>> /\ pipe.prod = "done")
    /\ \A i \in 1..Len(pipe.embeds) : pipe.embeds[i] <= BatchSize
    /\ (pipe.prod = "done" /\ pipe.cons = "done")
          => /\ pipe.queue = <<>>
             /\ Len(pipe.produced) = Len(GlobRoots(fs))
             /\ \A i \in 1..Len(pipe.produced) :
                   /\ pipe.produced[i].entry.type = EntryType(GlobRoots(fs)[i])
                   /\ pipe.produced[i].entry.name = GlobRoots(fs)[i][2]
             /\ \A kind \in Kinds :
                   Untagged(pipe.index[kind]) = ExpectedIndex(pipe.produced, kind)
             /\ Sum(pipe.embeds) = Len(pipe.produced)

\* a run of three entries: a full batch, and one entry left for the None
C18_Witness ==
    /\ pipe.pc = "returned"
    /\ Len(pipe.produced) = BatchSize + 1
    /\ pipe.embeds = <<BatchSize, 1>>
    /\ Len(pipe.index["skills"]) = 2 /\ Len(pipe.index["roles"]) = 1

\* the fields a manifest and an entry have in common
ManifestFields(r) ==
    [name |-> r.name, description |-> r.description, uuid |-> r.uuid,
     etag |-> r.etag, files |-> r.files, tags |-> r.tags]

TableFields(tbls) == [kind \in Kinds |-> {ManifestFields(r) : r \in tbls[kind]}]

---------------------------------------------------------------------------
(* Properties of the FileStore and of the staging list inside a scope.     *)

\* C21: while a Transaction scope is open, the FileStore shows the
\* pre-transaction state: a load, exists or glob on the same store returns
\* what it returned when the scope was entered, and the scope's saves and
\* deletes become observable only by the commit.
C21_MutationsHiddenInScope == fsTxn => fs = fs0

\* C22: an entry that reindex parses from its root file (the manifest is
\* missing or stale) gets md5 of the current root bytes as etag and its
\* manifest is rewritten; if there was a manifest before, the entry keeps
\* that manifest's uuid if and only if the root bytes hash to the etag
\* recorded there, and gets a new uuid otherwise.
C22_UuidFollowsContentHash ==
    \A i \in 1..Len(pipe.produced) :
        LET key == GlobRoots(fs)[i]
            m == ManifestOf(key)
            item == pipe.produced[i]
        IN  item.manifest_path # None
                => /\ item.entry.etag = Md5(fs0[key])
                   /\ pipe.cons = "done"
                         => /\ m \in pipe.written
                            /\ fs[m] # Absent
                            /\ fs[m][2].etag = item.entry.etag
                            /\ fs[m][2].uuid = item.entry.uuid
                   /\ fs0[m] # Absent
                         => (item.entry.uuid = fs0[m][2].uuid
                                <=> fs0[m][2].etag = Md5(fs0[key]))

\* what a save or a delete of the key is to append to the log
InverseOf(key) ==
    IF fs[key] # Absent THEN <<"restore", key, fs[key]>> ELSE <<"delete", key, Absent>>

\* C23: with a transaction attached, a save appends the inverse operation
\* to the log (delete(key) for an absent key, restore(key, prior bytes) for
\* an existing one) and records md5 of the new bytes under the key; a
\* delete of an existing file appends restore(key, prior bytes) and records
\* md5 of the prior bytes; a delete of a directory or of an absent key
\* appends nothing; with no transaction attached nothing is logged.
C23_MutationsLogInverse ==
    [][/\ (last'.op = "save" /\ fsTxn)
            => \E key \in TxnKeys, data \in TxnBytes :
                  /\ log' = Append(log, InverseOf(key))
                  /\ hashes' = HashAdd(hashes, key, data)
                  /\ fs' = [fs EXCEPT ![key] = data]
       /\ (last'.op = "delete" /\ last'.kind = "-" /\ last'.at = "none" /\ fsTxn)
            => \/ \E key \in TxnKeys :
                     /\ fs[key] # Absent
                     /\ log' = Append(log, <<"restore", key, fs[key]>>)
                     /\ hashes' = HashAdd(hashes, key, fs[key])
                     /\ fs' = [fs EXCEPT ![key] = Absent]
               \/ /\ \E key \in TxnKeys \cup TxnDirs :
                        /\ ~Exists(St, key) \/ key \in TxnDirs
                        /\ fs' = RawDelete(St, key, TRUE).fs
                  /\ log' = log
                  /\ hashes' = hashes
       /\ (last'.op \in {"save", "delete"} /\ last'.kind = "-" /\ ~fsTxn)
            => log' = log /\ hashes' = hashes /\ log = <<>>]_vars

\* a save outside every scope (x2 is in no initial store), then a scope
\* that saved an absent key and deleted it: the log holds delete, restore
C23_Witness ==
    /\ fsTxn
    /\ \E key \in TxnKeys : fs0[key] = Raw("x2")
    /\ Len(log) = 2 /\ log[1][1] = "delete" /\ log[2][1] = "restore"
    /\ log[1][2] = log[2][2] /\ fs[log[1][2]] = Absent
    /\ Len(hashes) = 1

\* C24: entering a scope sets the Transaction as the current transaction
\* of the FileStore and of the engine, and after the exit, by a commit with
\* staged metadata, a commit with nothing staged, an exception in the body
\* or a failure during the commit, both references are None.
C24_ExitDetachesBoth ==
    /\ last.op = "enter" => fsTxn /\ engTxn
    /\ last.op = "exit" => ~fsTxn /\ ~engTxn
    /\ fsTxn = engTxn

\* a scope that saved a file, staged nothing and left normally: the exit
\* took the early return of the commit
C24_Witness ==
    /\ last.op = "exit" /\ last.at = "none"
    /\ metadata = <<>>
    /\ fs # fs0
    /\ ~fsTxn /\ ~engTxn

\* C25: index(entry) and deindex(entry) under a transaction append
\* (upsert, entry) or (delete, entry) to the staging list and change no
\* table, no persisted file and nothing of the FileStore; with no
\* transaction attached they append nothing and change nothing.
C25_StagingOnly ==
    [][(last'.op \in {"upsert", "delete"} /\ last'.kind # "-")
          => /\ UNCHANGED <<engineVars, storeVars, fsTxn, engTxn>>
             /\ IF engTxn
                THEN \E entry \in TxnEntries :
                        /\ entry.name = last'.name /\ entry.type = last'.kind
                        /\ metadata' = Append(metadata, <<last'.op, entry>>)
                ELSE metadata' = metadata]_vars

\* an index call outside every scope, after a scope that staged one entry:
\* the list still holds that one entry
C25_Witness ==
    /\ ~engTxn
    /\ last.op = "upsert" /\ last.kind # "-"
    /\ ops = 2
    /\ Len(metadata) = 1

\* the entries staged in the scope that was entered last
ScopeStaged == SubSeq(metadata, staged0 + 1, Len(metadata))
IndexedInScope(name) ==
    \E i \in 1..Len(ScopeStaged) :
        IsUpsert(ScopeStaged[i]) /\ ScopeStaged[i][2].name = name
DeindexedInScope(name) ==
    \E i \in 1..Len(ScopeStaged) :
        IsDelete(ScopeStaged[i]) /\ ScopeStaged[i][2].name = name

\* C26: after the commit of a scope on a writable engine, a name that the
\* scope both indexed and deindexed has no row, whichever was staged
\* first; a name it only indexed has a row; a name it only deindexed has
\* none.
C26_UpsertsBeforeDeletes ==
    (ExitedByCommit /\ ~readOnly /\ StagedTypes # {})
        => \A name \in Names, t \in StagedTypes :
              /\ DeindexedInScope(name) => ~RowExists(FreshTables[t], name)
              /\ (IndexedInScope(name) /\ ~DeindexedInScope(name))
                    => RowExists(FreshTables[t], name)

\* the same for a scope that found the staging list empty
C26_FirstScope ==
    (ExitedByCommit /\ ~readOnly /\ StagedTypes # {} /\ staged0 = 0)
        => \A name \in Names, t \in StagedTypes :
              /\ DeindexedInScope(name) => ~RowExists(FreshTables[t], name)
              /\ (IndexedInScope(name) /\ ~DeindexedInScope(name))
                    => RowExists(FreshTables[t], name)

\* the kinds carried by the entries staged in the scope entered last
ScopeTypes == {ScopeStaged[i][2].type : i \in 1..Len(ScopeStaged)} \ {NoType}

\* C27: when a scope is left normally and no entry staged in it carries a
\* kind (nothing was staged, or every staged entry has its type unset),
\* the exit returns, writes no manifest, opens no metastore session,
\* changes no table and no persisted file, rolls nothing back and leaves
\* the FileStore as the body left it.
C27_UntypedExitIsNoOp ==
    [][(fsTxn /\ last'.op = "exit" /\ last'.at # "body" /\ ScopeTypes = {})
          => /\ last'.at = "none"
             /\ UNCHANGED <<fs, dirs, engineVars>>]_vars

\* the same for a scope left while the whole staging list carries no kind
C27_UntypedListIsNoOp ==
    [][(fsTxn /\ last'.op = "exit" /\ last'.at # "body" /\ StagedTypes = {})
          => /\ last'.at = "none"
             /\ UNCHANGED <<fs, dirs, engineVars>>]_vars

---------------------------------------------------------------------------
(* Tags and embeddings of a reindex run (C28).                             *)

\* the entries that were embedded in one call with the i-th produced
SameBatch(i) ==
    {j \in 1..Len(pipe.produced) : (j - 1) \div BatchSize = (i - 1) \div BatchSize}
\* what the tagger returned for the name of the i-th produced entry
TaggerReturned(i) ==
    {pipe.produced[j].entry.description : j \in {k \in SameBatch(i) :
        /\ pipe.produced[k].entry.name = pipe.produced[i].entry.name
        /\ pipe.produced[k].entry.description \in TaggedTexts}}
\* the row the consumer built from the i-th produced entry
RowBuilt(i) ==
    LET type == pipe.produced[i].entry.type
        place == Cardinality({j \in 1..i : pipe.produced[j].entry.type = type})
    IN  pipe.index[type][place]

---------------------------------------------------------------------------
(* Failures of the facade before anything is written (C29, C30).           *)

\* the call just made was delete_template for a name without a row, in
\* the engine's table or in the persisted one
DeletedMissing ==
    /\ last'.op = "delete_template"
    /\ ~RowExists(tables[last'.kind], last'.name)
    /\ ~RowExists(parquet[last'.kind], last'.name)

\* C29: delete_template for a name that has no row raises the not-found
\* error of its existence check, and FileStore, tables, persisted files
\* and staging list are after the call what they were before it.
C29_MissingNameNotFound ==
    [][DeletedMissing
          => /\ last'.at = "body"
             /\ ~ReadRaises(Eng)
             /\ UNCHANGED <<fs, dirs, engineVars, metadata>>]_vars

\* the same without the kind of the error: the call raises in its body and
\* changes nothing
C29_MissingNameNoEffect ==
    [][DeletedMissing
          => /\ last'.at = "body"
             /\ UNCHANGED <<fs, dirs, engineVars, metadata>>]_vars

\* the call just made was publish_template of a template that has neither
\* a given nor a frontmatter description
PublishedUnresolved ==
    /\ last'.op = "publish_template"
    /\ \A tpl \in Templates :
          (tpl.kind = last'.kind /\ tpl.name = last'.name) => tpl.description = NoText

\* C30: process_template raises when name or description is set neither
\* by the entry nor by the frontmatter, before any save and before
\* index(entry); and after any failure of the publish, in process_template
\* or in the commit of its scope, the FileStore holds the files it held
\* before the call and no entry is left staged.
C30_FailureLeavesNothing ==
    [][/\ PublishedUnresolved => last'.at = "body"
       /\ (last'.op = "publish_template" /\ last'.at # "none")
             => UNCHANGED <<fs, metadata>>]_vars

\* the same for the failures of process_template itself, before its first
\* save or after it: files, staging list and engine are untouched
C30_FailedProcessLeavesNothing ==
    [][/\ PublishedUnresolved => last'.at = "body"
       /\ (last'.op = "publish_template" /\ last'.at = "body")
             => UNCHANGED <<fs, metadata, engineVars>>]_vars

\* a publish of a two-file template into an empty registry that failed
\* after its first save: the directory made for the file is there, the
\* file is not, and nothing is staged
C30_Witness ==
    /\ last.op = "publish_template" /\ last.fault = "save" /\ last.at = "body"
    /\ fs0 = EmptyStore
    /\ fs = EmptyStore
    /\ TemplateDir("skills", "a") \in dirs
    /\ metadata = <<>>

====
